---- MODULE Spec2Model ----
(***************************************************************************)
(* Model of the stroke orchestrator (Scene.handleFinDrawing), the two      *)
(* worker lanes reached through useWebWorker, and the undo/redo command    *)
(* store (useStore) of hew2-customize.                                     *)
(*                                                                         *)
(* Meshes are natural numbers: 0 is the base mesh put into the concave     *)
(* group on mount; islands created by getSeparateMeshes get fresh numbers. *)
(* A stroke, its cutter (convexMesh) and the command it builds share one   *)
(* number, the stroke's task id.                                           *)
(***************************************************************************)
EXTENDS Integers, Sequences, FiniteSets, TLC

\* ---- bounds of the model ----
MaxStrokes == 2      \* strokes that reach the cutter construction
MaxMesh == 4         \* highest mesh number that may be allocated
MaxIslands == 2      \* islands in one segmentation response
MaxPoints == 2       \* points of a stroke that are counted
MaxPush == 4         \* commands pushed when the store is driven directly
MaxFaces == 3        \* faces of a mesh given to separateIslands
MaxRequests == 2     \* calls of the dispatch function of one worker
MaxTris == 1         \* triangles of the geometry a boolean evaluation returns
MaxWhole == 1        \* whole triangles of a segment request that may end in a partial one
MaxDequeue == 3      \* iterations of the segmenter's while loop that are followed
MaxThrowPush == 2    \* commands pushed when closures may throw
MaxRun == 2          \* triangles of a well-formed request whose run is followed step by step

VARIABLES
  concave,        \* concaveGroupRef.current.children (oldest first)
  convex,         \* convexGroupRef.current.children
  disposedMesh,   \* meshes whose geometry and materials were disposed
  disposedGeo,    \* cutters whose geometry was disposed
  undoStack,      \* useStore.undoStack
  redoStack,      \* useStore.redoStack
  isDrawing,      \* Scene state isDrawing
  points,         \* pointsRef.current.length (counted up to MaxPoints)
  tasks,          \* the suspended handleFinDrawing calls, by task id
  nextTask,       \* number of the next stroke task
  nextMesh,       \* number of the next mesh created
  csgListeners,   \* futures with listeners attached to the CSG worker
  islListeners,   \* futures with listeners attached to the island worker
  csgInbox,       \* requests posted to the CSG worker, not yet evaluated
  islInbox,       \* requests posted to the island worker
  csgOutbox,      \* responses posted by the CSG worker, not yet delivered
  islOutbox,      \* responses posted by the island worker
  dispatch,       \* the message event being dispatched on the main thread
  events,         \* what the handler that ran last did, in order
  lastOp,         \* the handler that ran last
  pushed,         \* commands ever passed to pushCommand
  released,       \* how often each command's dispose closure was called
  positions,      \* IslMsg.positions of the request islWorker is given, by face
  normals,        \* IslMsg.normals of that request, by face
  islands,        \* the result islWorker posts for it
  segmented,      \* islWorker has handled the request
  worker,         \* a worker of useWebWorker: its ref is null, or it is live or terminated
  futures,        \* the promises the dispatch function of that worker returned
  port,           \* that worker's listeners and the messages to and from it
  csgRun,         \* one run of CSGWorker's onmessage: where it is and what it posted
  raw,            \* one run of islWorker's onmessage, loop iteration by loop iteration
  xfer            \* the array buffers of the requests and responses and who holds them

vars == <<concave, convex, disposedMesh, disposedGeo, undoStack, redoStack,
          isDrawing, points, tasks, nextTask, nextMesh, csgListeners,
          islListeners, csgInbox, islInbox, csgOutbox, islOutbox, dispatch,
          events, lastOp, pushed, released, positions, normals, islands,
          segmented, worker, futures, port, csgRun, raw, xfer>>

sceneVars == <<concave, convex, disposedMesh, disposedGeo>>
storeVars == <<undoStack, redoStack, pushed, released>>
laneVars == <<csgListeners, islListeners, csgInbox, islInbox, csgOutbox, islOutbox>>
segVars == <<positions, normals, islands, segmented>>
\* what the handlers of the scene and the store never touch
portVars == <<worker, futures, port>>
asideVars == <<segVars, portVars, csgRun, raw, xfer>>

TaskIds == 1..MaxStrokes

\* the numbers a command can carry
CmdIds == 1..(IF MaxPush > MaxStrokes THEN MaxPush ELSE MaxStrokes)

Range(s) == {s[i] : i \in 1..Len(s)}

\* ---- scene graph primitives used by the orchestrator ----

\* parent.remove(...ms): every listed child is spliced out, others keep order
GroupRemove(children, ms) == SelectSeq(children, LAMBDA m : m \notin Range(ms))

\* parent.add(...ms): each object is detached from its parent, then pushed
GroupAdd(children, ms) == GroupRemove(children, ms) \o ms

\* meshAttrDispose(mesh) for every mesh of a list
meshAttrDispose(done, ms) == done \cup Range(ms)

\* ---- the command built by handleFinDrawing ----

Command(t, nextMeshes, originalState) ==
  [id |-> t, convexMesh |-> t, nextMeshes |-> nextMeshes,
   originalState |-> originalState]

\* command.undo: the scene it leaves, as [concave, convex]
CommandUndo(c, sc) ==
  [concave |-> GroupAdd(GroupRemove(sc.concave, c.nextMeshes), c.originalState),
   convex |-> GroupRemove(sc.convex, <<c.convexMesh>>)]

\* command.redo
CommandRedo(c, sc) ==
  [concave |-> GroupAdd(GroupRemove(sc.concave, c.originalState), c.nextMeshes),
   convex |-> GroupAdd(sc.convex, <<c.convexMesh>>)]

\* command.dispose: the disposed sets it leaves, as [mesh, geo]
CommandDispose(c, d) ==
  [mesh |-> meshAttrDispose(d.mesh, c.nextMeshes),
   geo |-> d.geo \cup {c.convexMesh}]

\* ---- the store (useStore) ----
\* Each operation yields the stacks it sets and its trace: the closure calls
\* it makes and its set() call, in program order.

\* variants of pushCommand with a plausible slip each
pushCommand_newestFirst(us, rs, cmd) ==
  [undoStack |-> Append(us, cmd),
   redoStack |-> <<>>,
   trace |-> [i \in 1..Len(rs) |-> <<"dispose", rs[Len(rs) + 1 - i].id>>]
             \o <<<<"set", cmd.id>>>>]

pushCommand_keepsRedo(us, rs, cmd) ==
  [undoStack |-> Append(us, cmd),
   redoStack |-> rs,
   trace |-> [i \in 1..Len(rs) |-> <<"dispose", rs[i].id>>] \o <<<<"set", cmd.id>>>>]

pushCommand_disposesApplied(us, rs, cmd) ==
  [undoStack |-> Append(us, cmd),
   redoStack |-> <<>>,
   trace |-> [i \in 1..Len(us \o rs) |-> <<"dispose", (us \o rs)[i].id>>]
             \o <<<<"set", cmd.id>>>>]

pushCommand_prepends(us, rs, cmd) ==
  [undoStack |-> <<cmd>> \o us,
   redoStack |-> <<>>,
   trace |-> [i \in 1..Len(rs) |-> <<"dispose", rs[i].id>>] \o <<<<"set", cmd.id>>>>]

pushCommand(us, rs, cmd) ==
  [undoStack |-> Append(us, cmd),
   redoStack |-> <<>>,
   trace |-> [i \in 1..Len(rs) |-> <<"dispose", rs[i].id>>] \o <<<<"set", cmd.id>>>>]

\* undo taking the oldest entry instead of the newest
undo_popsOldest(us, rs) ==
  IF Len(us) = 0
  THEN [undoStack |-> us, redoStack |-> rs, trace |-> <<>>]
  ELSE LET cmd == us[1] IN
       [undoStack |-> Tail(us),
        redoStack |-> Append(rs, cmd),
        trace |-> <<<<"undo", cmd.id>>, <<"set", cmd.id>>>>]

undo(us, rs) ==
  IF Len(us) = 0
  THEN [undoStack |-> us, redoStack |-> rs, trace |-> <<>>]
  ELSE LET cmd == us[Len(us)] IN
       [undoStack |-> SubSeq(us, 1, Len(us) - 1),
        redoStack |-> Append(rs, cmd),
        trace |-> <<<<"undo", cmd.id>>, <<"set", cmd.id>>>>]

\* redo moving the entry without calling its redo closure
redo_skipsApply(us, rs) ==
  IF Len(rs) = 0
  THEN [undoStack |-> us, redoStack |-> rs, trace |-> <<>>]
  ELSE LET cmd == rs[Len(rs)] IN
       [redoStack |-> SubSeq(rs, 1, Len(rs) - 1),
        undoStack |-> Append(us, cmd),
        trace |-> <<<<"set", cmd.id>>>>]

redo(us, rs) ==
  IF Len(rs) = 0
  THEN [undoStack |-> us, redoStack |-> rs, trace |-> <<>>]
  ELSE LET cmd == rs[Len(rs)] IN
       [redoStack |-> SubSeq(rs, 1, Len(rs) - 1),
        undoStack |-> Append(us, cmd),
        trace |-> <<<<"redo", cmd.id>>, <<"set", cmd.id>>>>]

\* the ids a trace calls a closure of the given kind on, in order
Called(trace, kind) ==
  LET s == SelectSeq(trace, LAMBDA e : e[1] = kind) IN [i \in 1..Len(s) |-> s[i][2]]

\* ---- the suspended orchestrator calls ----

NoTask ==
  [pc |-> "none", cur |-> <<>>, hits |-> {}, idx |-> 0, next |-> <<>>,
   rem |-> <<>>, changed |-> FALSE, failed |-> FALSE]

DoneTask == [NoTask EXCEPT !.pc = "done"]

NoDispatch ==
  [lane |-> "none", ok |-> FALSE, n |-> 0, req |-> 0, index |-> FALSE, todo |-> <<>>]

\* the main thread is between tasks: no message event is being dispatched
MainIdle == dispatch.todo = <<>>

\* the for-loop of handleFinDrawing from position tk.idx up to its next await
\* (pc "csg") or its end (pc "fin")
RECURSIVE RunLoop(_)
RunLoop(tk) ==
  IF tk.idx > Len(tk.cur)
  THEN [tk EXCEPT !.pc = "fin"]
  ELSE LET mesh == tk.cur[tk.idx] IN
       IF mesh \in tk.hits
       THEN [tk EXCEPT !.pc = "csg", !.changed = TRUE, !.rem = Append(@, mesh)]
       ELSE RunLoop([tk EXCEPT !.next = Append(@, mesh), !.idx = @ + 1])

\* the locals of a call whose applySubtraction returned null: nothing is
\* pushed on nextMeshes and the loop goes on
Rejected(tk) == [tk EXCEPT !.idx = @ + 1, !.failed = TRUE]

\* the locals of a call whose getSeparateMeshes returned meshArr:
\* nextMeshes.push(...separated) when it is not empty, and the loop goes on
Separated_dropsIslands(tk, meshArr) == [tk EXCEPT !.idx = @ + 1]

Separated(tk, meshArr) ==
  [tk EXCEPT !.next = IF Len(meshArr) > 0 THEN @ \o meshArr ELSE @, !.idx = @ + 1]

\* colliding meshes a suspended call has still to send to the workers
Pending(tk) ==
  IF tk.pc \in {"csg", "isl"}
  THEN Cardinality({i \in tk.idx..Len(tk.cur) : tk.cur[i] \in tk.hits})
  ELSE 0

RECURSIVE SumPending(_)
SumPending(S) ==
  IF S = {} THEN 0
  ELSE LET t == CHOOSE x \in S : TRUE IN Pending(tasks[t]) + SumPending(S \ {t})

\* meshes that the calls in flight may still create
Reserved == (nextMesh - 1) + MaxIslands * SumPending(TaskIds)

Mounted ==
  /\ concave = <<0>>
  /\ convex = <<>>
  /\ disposedMesh = {}
  /\ disposedGeo = {}
  /\ undoStack = <<>>
  /\ redoStack = <<>>
  /\ isDrawing = FALSE
  /\ points = 0
  /\ tasks = [t \in TaskIds |-> NoTask]
  /\ nextTask = 1
  /\ nextMesh = 1
  /\ csgListeners = <<>>
  /\ islListeners = <<>>
  /\ csgInbox = <<>>
  /\ islInbox = <<>>
  /\ csgOutbox = <<>>
  /\ islOutbox = <<>>
  /\ dispatch = NoDispatch
  /\ events = <<>>
  /\ lastOp = "mount"
  /\ pushed = 0
  /\ released = [c \in CmdIds |-> 0]

\* no request before islWorker
SegIdle ==
  /\ positions = <<>>
  /\ normals = <<>>
  /\ islands = <<>>
  /\ segmented = FALSE

NoPort ==
  [listeners |-> <<>>, errs |-> <<>>, inbox |-> <<>>, outbox |-> <<>>, ev |-> "none",
   todo |-> <<>>]

\* the effect of useWebWorker has run and nothing was dispatched
PortIdle ==
  /\ worker = "live"
  /\ futures = <<>>
  /\ port = NoPort

\* CSGWorker's onmessage is not running
CsgIdle == csgRun = [pc |-> "idle", posted |-> <<>>]

\* islWorker's onmessage is not running
RawIdle == raw = [pc |-> "idle", posted |-> <<>>]

\* a buffer: its kind, the request it belongs to, its number in the response
Buf(kind, k, j) == <<kind, k, j>>

\* the arrays of the manhole mesh are in the scene; nothing was transferred
XferIdle ==
  xfer = [pc |-> "idle", k |-> 0, side |-> "main", ops |-> <<>>,
          live |-> {Buf("scene", 0, 0)},
          gone |-> [sd \in {"main", "csg", "isl"} |-> {}],
          ok |-> TRUE, indexed |-> FALSE, n |-> 0]

Init ==
  /\ Mounted
  /\ SegIdle
  /\ PortIdle
  /\ CsgIdle
  /\ RawIdle
  /\ XferIdle


\* ---- running the closures an operation of the store calls ----

CmdById(id) == CHOOSE c \in Range(undoStack) \cup Range(redoStack) : c.id = id

\* the scene, the disposed sets and the release counts after the closure
\* calls of a trace, applied in order to st
RECURSIVE RunCalls(_, _)
RunCalls(trace, st) ==
  IF trace = <<>> THEN st
  ELSE LET e == Head(trace)
           c == CmdById(e[2])
           sc == [concave |-> st.concave, convex |-> st.convex]
           d == [mesh |-> st.mesh, geo |-> st.geo]
           st2 == CASE e[1] = "undo" ->
                         [st EXCEPT !.concave = CommandUndo(c, sc).concave,
                                    !.convex = CommandUndo(c, sc).convex]
                     [] e[1] = "redo" ->
                         [st EXCEPT !.concave = CommandRedo(c, sc).concave,
                                    !.convex = CommandRedo(c, sc).convex]
                     [] e[1] = "dispose" ->
                         [st EXCEPT !.mesh = CommandDispose(c, d).mesh,
                                    !.geo = CommandDispose(c, d).geo,
                                    !.released[e[2]] = @ + 1]
                     [] OTHER -> st
       IN RunCalls(Tail(trace), st2)

Here ==
  [concave |-> concave, convex |-> convex, mesh |-> disposedMesh,
   geo |-> disposedGeo, released |-> released]

\* ---- pointer handlers of the edit mesh ----

OnPointerDown ==
  /\ MainIdle
  /\ nextTask <= MaxStrokes
  /\ isDrawing' = TRUE
  /\ points' = 1
  /\ events' = <<>>
  /\ lastOp' = "pointerdown"
  /\ UNCHANGED <<sceneVars, storeVars, laneVars, tasks, nextTask, nextMesh, dispatch>>
  /\ UNCHANGED asideVars

OnPointerMove ==
  /\ MainIdle
  /\ isDrawing
  /\ points < MaxPoints
  /\ points' = points + 1
  /\ events' = <<>>
  /\ lastOp' = "pointermove"
  /\ UNCHANGED <<sceneVars, storeVars, laneVars, tasks, nextTask, nextMesh,
                 dispatch, isDrawing>>
  /\ UNCHANGED asideVars

\* handleFinDrawing from a resumption point to its next await or its end.
\* t: the call; tk0: its locals at the resumption; csgL: the CSG listeners
\* then attached; evs: what the handler did before.
Continue_alwaysPushes(t, tk0, csgL, evs) ==
  LET tk == RunLoop(tk0) IN
  IF tk.pc = "csg"
  THEN \* applySubtraction -> postCsgWorker, then suspended
       /\ tasks' = [tasks EXCEPT ![t] = tk]
       /\ csgListeners' = Append(csgL, t)
       /\ csgInbox' = Append(csgInbox, t)
       /\ events' = Append(evs, <<"postCsg", t>>)
       /\ UNCHANGED <<sceneVars, storeVars, points>>
  ELSE /\ tasks' = [tasks EXCEPT ![t] = DoneTask]
       /\ csgListeners' = csgL
       /\ csgInbox' = csgInbox
       /\ points' = 0
       /\ IF TRUE
          THEN LET cmd == Command(t, tk.next, tk.cur)
                   swapped == [Here EXCEPT
                                 !.concave = GroupAdd(GroupRemove(concave, tk.rem), tk.next),
                                 !.convex = GroupAdd(convex, <<t>>)]
                   r == pushCommand(undoStack, redoStack, cmd)
                   st == RunCalls(r.trace, swapped)
               IN /\ concave' = st.concave
                  /\ convex' = st.convex
                  /\ disposedMesh' = st.mesh
                  /\ disposedGeo' = st.geo
                  /\ released' = st.released
                  /\ undoStack' = r.undoStack
                  /\ redoStack' = r.redoStack
                  /\ pushed' = pushed + 1
                  /\ events' = evs \o <<<<"swap", t>>, <<"push", t>>>> \o r.trace
          ELSE /\ disposedGeo' = disposedGeo \cup {t}
               /\ events' = evs
               /\ UNCHANGED <<concave, convex, disposedMesh, storeVars>>

Continue(t, tk0, csgL, evs) ==
  LET tk == RunLoop(tk0) IN
  IF tk.pc = "csg"
  THEN \* applySubtraction -> postCsgWorker, then suspended
       /\ tasks' = [tasks EXCEPT ![t] = tk]
       /\ csgListeners' = Append(csgL, t)
       /\ csgInbox' = Append(csgInbox, t)
       /\ events' = Append(evs, <<"postCsg", t>>)
       /\ UNCHANGED <<sceneVars, storeVars, points>>
  ELSE /\ tasks' = [tasks EXCEPT ![t] = DoneTask]
       /\ csgListeners' = csgL
       /\ csgInbox' = csgInbox
       /\ points' = 0
       /\ IF tk.changed
          THEN LET cmd == Command(t, tk.next, tk.cur)
                   swapped == [Here EXCEPT
                                 !.concave = GroupAdd(GroupRemove(concave, tk.rem), tk.next),
                                 !.convex = GroupAdd(convex, <<t>>)]
                   r == pushCommand(undoStack, redoStack, cmd)
                   st == RunCalls(r.trace, swapped)
               IN /\ concave' = st.concave
                  /\ convex' = st.convex
                  /\ disposedMesh' = st.mesh
                  /\ disposedGeo' = st.geo
                  /\ released' = st.released
                  /\ undoStack' = r.undoStack
                  /\ redoStack' = r.redoStack
                  /\ pushed' = pushed + 1
                  /\ events' = evs \o <<<<"swap", t>>, <<"push", t>>>> \o r.trace
          ELSE /\ disposedGeo' = disposedGeo \cup {t}
               /\ events' = evs
               /\ UNCHANGED <<concave, convex, disposedMesh, storeVars>>

handleFinDrawing(op) ==
  /\ MainIdle
  /\ lastOp' = op
  /\ IF ~isDrawing
     THEN /\ events' = <<>>
          /\ UNCHANGED <<sceneVars, storeVars, laneVars, tasks, nextTask, nextMesh,
                         dispatch, isDrawing, points>>
     ELSE /\ isDrawing' = FALSE
          /\ IF points < 2
             THEN /\ events' = <<>>
                  /\ UNCHANGED <<sceneVars, storeVars, laneVars, tasks, nextTask,
                                 nextMesh, dispatch, points>>
             ELSE /\ nextTask <= MaxStrokes
                  /\ \E hits \in SUBSET Range(concave) :
                       /\ Reserved + MaxIslands * Cardinality(hits) <= MaxMesh
                       /\ Continue(nextTask,
                                   [NoTask EXCEPT !.cur = concave, !.hits = hits, !.idx = 1],
                                   csgListeners, <<>>)
                  /\ nextTask' = nextTask + 1
                  /\ UNCHANGED <<islListeners, islInbox, csgOutbox, islOutbox,
                                 nextMesh, dispatch>>
  /\ UNCHANGED asideVars

OnPointerUp == handleFinDrawing("pointerup")

OnPointerLeave == handleFinDrawing("pointerleave")

\* ---- the undo and redo controls ----

StoreStep(r, op) ==
  LET st == RunCalls(r.trace, Here) IN
  /\ MainIdle
  /\ undoStack' = r.undoStack
  /\ redoStack' = r.redoStack
  /\ concave' = st.concave
  /\ convex' = st.convex
  /\ disposedMesh' = st.mesh
  /\ disposedGeo' = st.geo
  /\ released' = st.released
  /\ events' = r.trace
  /\ lastOp' = op
  /\ UNCHANGED <<pushed, laneVars, tasks, nextTask, nextMesh, dispatch, isDrawing, points>>
  /\ UNCHANGED asideVars

Undo == StoreStep(undo(undoStack, redoStack), "undo")

Redo == StoreStep(redo(undoStack, redoStack), "redo")


\* ---- the workers ----

\* CSGWorker onmessage: one request evaluated, one response posted;
\* ok = FALSE is the catch branch ({success: false, error}); index tells
\* whether result.index of a success is an array (the result geometry of the
\* evaluator carries an index) or null
CsgWorkerRun ==
  /\ csgInbox # <<>>
  /\ \E ok \in BOOLEAN, index \in BOOLEAN :
       /\ index => ok
       /\ csgOutbox' = Append(csgOutbox, [ok |-> ok, n |-> 0, req |-> Head(csgInbox),
                                         index |-> index])
  /\ csgInbox' = Tail(csgInbox)
  /\ UNCHANGED <<sceneVars, storeVars, csgListeners, islListeners, islInbox, islOutbox,
                 tasks, nextTask, nextMesh, dispatch, isDrawing, points, events, lastOp>>
  /\ UNCHANGED asideVars

\* islWorker onmessage: the islands of one request posted as {success: true};
\* ok = FALSE is an error event of the worker (an exception leaves onmessage,
\* which has no catch, as when an allocation fails): islWorker posts no
\* {success: false}
IslWorkerRun ==
  /\ islInbox # <<>>
  /\ \E ok \in BOOLEAN, n \in 0..MaxIslands :
       /\ ~ok => n = 0
       /\ islOutbox' = Append(islOutbox, [ok |-> ok, n |-> n, req |-> Head(islInbox).req,
                                         index |-> FALSE])
  /\ islInbox' = Tail(islInbox)
  /\ UNCHANGED <<sceneVars, storeVars, csgListeners, islListeners, csgInbox, csgOutbox,
                 tasks, nextTask, nextMesh, dispatch, isDrawing, points, events, lastOp>>
  /\ UNCHANGED asideVars

\* ---- message events on the main thread ----

\* a message event starts: it will call the listeners attached at this moment
Dispatching(lane, msg, listeners) ==
  IF listeners = <<>> THEN NoDispatch
  ELSE [lane |-> lane, ok |-> msg.ok, n |-> msg.n, req |-> msg.req,
        index |-> msg.index, todo |-> listeners]

DeliverCsg ==
  /\ MainIdle
  /\ csgOutbox # <<>>
  /\ dispatch' = Dispatching("csg", Head(csgOutbox), csgListeners)
  /\ csgOutbox' = Tail(csgOutbox)
  /\ UNCHANGED <<sceneVars, storeVars, csgListeners, islListeners, csgInbox, islInbox,
                 islOutbox, tasks, nextTask, nextMesh, isDrawing, points, events, lastOp>>
  /\ UNCHANGED asideVars

DeliverIsl ==
  /\ MainIdle
  /\ islOutbox # <<>>
  /\ dispatch' = Dispatching("isl", Head(islOutbox), islListeners)
  /\ islOutbox' = Tail(islOutbox)
  /\ UNCHANGED <<sceneVars, storeVars, csgListeners, islListeners, csgInbox, islInbox,
                 csgOutbox, tasks, nextTask, nextMesh, isDrawing, points, events, lastOp>>
  /\ UNCHANGED asideVars

\* the dispatch once its first listener has run
Dispatched == IF Len(dispatch.todo) = 1 THEN NoDispatch
              ELSE [dispatch EXCEPT !.todo = Tail(@)]

Without(listeners, t) == SelectSeq(listeners, LAMBDA x : x # t)

\* postCsgWorker's handleMessage for the future of call t, and the
\* continuation of applySubtraction / handleFinDrawing it resumes
CsgListener ==
  /\ dispatch.lane = "csg"
  /\ dispatch.todo # <<>>
  /\ LET t == Head(dispatch.todo)
         tk == tasks[t]
         csgL == Without(csgListeners, t)
     IN IF dispatch.ok
        THEN \* resolve -> newMesh (newGeo.setIndex when result.index is an
             \* array) -> getSeparateMeshes -> postIslWorker, which posts the
             \* position and normal arrays of newMesh.geometry as they are
             /\ tasks' = [tasks EXCEPT ![t].pc = "isl"]
             /\ csgListeners' = csgL
             /\ islListeners' = Append(islListeners, t)
             /\ islInbox' = Append(islInbox, [req |-> t, indexed |-> dispatch.index])
             /\ events' = <<<<"postIsl", t>>>>
             /\ UNCHANGED <<sceneVars, storeVars, csgInbox, points>>
        ELSE \* reject -> caught in applySubtraction -> subMesh is null
             /\ Continue(t, Rejected(tk), csgL, <<>>)
             /\ UNCHANGED <<islListeners, islInbox>>
  /\ dispatch' = Dispatched
  /\ lastOp' = "csgListener"
  /\ UNCHANGED <<csgOutbox, islOutbox, nextTask, nextMesh, isDrawing>>
  /\ UNCHANGED asideVars

AbandonedTask == [NoTask EXCEPT !.pc = "rejected"]

\* handleFinDrawing when the promise of getSeparateMeshes rejects: the await
\* throws, nothing catches it and the call ends there
IslRejected_goesOn(t, tk) ==
  Continue(t, Rejected(tk), csgListeners, <<>>)

IslRejected(t, tk) ==
  /\ tasks' = [tasks EXCEPT ![t] = AbandonedTask]
  /\ events' = <<>>
  /\ UNCHANGED <<sceneVars, storeVars, csgListeners, csgInbox, points>>

\* postIslWorker's handleMessage or handleError for the future of call t, and
\* the continuation of getSeparateMeshes / handleFinDrawing it resumes
IslListener ==
  /\ dispatch.lane = "isl"
  /\ dispatch.todo # <<>>
  /\ LET t == Head(dispatch.todo)
         tk == tasks[t]
         meshArr == [i \in 1..dispatch.n |-> nextMesh + i - 1]
     IN /\ islListeners' = Without(islListeners, t)
        /\ nextMesh' = nextMesh + dispatch.n
        /\ IF dispatch.ok
           THEN Continue(t, Separated(tk, meshArr), csgListeners, <<>>)
           ELSE IslRejected(t, tk)
  /\ dispatch' = Dispatched
  /\ lastOp' = "islListener"
  /\ UNCHANGED <<csgOutbox, islOutbox, islInbox, nextTask, isDrawing>>
  /\ UNCHANGED asideVars

Next ==
  \/ OnPointerDown
  \/ OnPointerMove
  \/ OnPointerUp
  \/ OnPointerLeave
  \/ Undo
  \/ Redo
  \/ CsgWorkerRun
  \/ IslWorkerRun
  \/ DeliverCsg
  \/ DeliverIsl
  \/ CsgListener
  \/ IslListener

Spec == Init /\ [][Next]_vars


\* ---- the store driven directly: any sequence of pushCommand, undo, redo ----

\* a caller applies an edit that replaces the concave group's children by
\* a new mesh (or by nothing) and pushes its command, as handleFinDrawing does
StorePush ==
  /\ pushed < MaxPush
  /\ \E n \in 0..1 :
       LET id == pushed + 1
           nextMeshes == [i \in 1..n |-> id]
           cmd == Command(id, nextMeshes, concave)
           swapped == [Here EXCEPT
                         !.concave = GroupAdd(GroupRemove(concave, concave), nextMeshes),
                         !.convex = GroupAdd(convex, <<id>>)]
           r == pushCommand(undoStack, redoStack, cmd)
           st == RunCalls(r.trace, swapped)
       IN /\ concave' = st.concave
          /\ convex' = st.convex
          /\ disposedMesh' = st.mesh
          /\ disposedGeo' = st.geo
          /\ released' = st.released
          /\ undoStack' = r.undoStack
          /\ redoStack' = r.redoStack
          /\ events' = <<<<"swap", id>>, <<"push", id>>>> \o r.trace
  /\ pushed' = pushed + 1
  /\ lastOp' = "push"
  /\ UNCHANGED <<laneVars, tasks, nextTask, nextMesh, dispatch, isDrawing, points>>
  /\ UNCHANGED asideVars

StoreNext ==
  \/ StorePush
  \/ Undo
  \/ Redo

StoreSpec == Init /\ [][StoreNext]_vars

\* ---- a command whose closure throws ----

\* undo() when cmd.undo() throws, after having acted or before: the
\* exception leaves undo() at line 32 and set() is not reached
undoThrowing_setsFirst(us, rs, acted) ==
  IF Len(us) = 0
  THEN [undoStack |-> us, redoStack |-> rs, trace |-> <<>>]
  ELSE LET cmd == us[Len(us)] IN
       [undoStack |-> SubSeq(us, 1, Len(us) - 1),
        redoStack |-> Append(rs, cmd),
        trace |-> <<<<"set", cmd.id>>>>
                    \o (IF acted THEN <<<<"undo", cmd.id>>>> ELSE <<>>)
                    \o <<<<"throw", cmd.id>>>>]

undoThrowing(us, rs, acted) ==
  IF Len(us) = 0
  THEN [undoStack |-> us, redoStack |-> rs, trace |-> <<>>]
  ELSE LET cmd == us[Len(us)] IN
       [undoStack |-> us,
        redoStack |-> rs,
        trace |-> (IF acted THEN <<<<"undo", cmd.id>>>> ELSE <<>>)
                    \o <<<<"throw", cmd.id>>>>]

\* redo() when cmd.redo() throws at line 42
redoThrowing(us, rs, acted) ==
  IF Len(rs) = 0
  THEN [undoStack |-> us, redoStack |-> rs, trace |-> <<>>]
  ELSE LET cmd == rs[Len(rs)] IN
       [undoStack |-> us,
        redoStack |-> rs,
        trace |-> (IF acted THEN <<<<"redo", cmd.id>>>> ELSE <<>>)
                    \o <<<<"throw", cmd.id>>>>]

UndoThrows ==
  /\ undoStack # <<>>
  /\ \E acted \in BOOLEAN : StoreStep(undoThrowing(undoStack, redoStack, acted), "undoThrew")

RedoThrows ==
  /\ redoStack # <<>>
  /\ \E acted \in BOOLEAN : StoreStep(redoThrowing(undoStack, redoStack, acted), "redoThrew")

\* a command is pushed
ThrowPush ==
  /\ pushed < MaxThrowPush
  /\ StorePush

ThrowNext ==
  \/ ThrowPush
  \/ Undo
  \/ Redo
  \/ UndoThrows
  \/ RedoThrows

ThrowSpec == Init /\ [][ThrowNext]_vars

\* ---- islWorker: separateIslands ----

\* A coordinate c of the model is the position value c * 0.00005, half a
\* step of the rounding grid: Math.round(value * precision) = Math.round(c / 2),
\* and Math.round rounds a half upwards.
Round(c) == (c + 1) \div 2

\* coordinates a vertex may take: 0 has a key of its own, 1 and 2 differ and
\* round to the same key
Coords == {0, 1, 2}

Verts == {<<x, 0, 0>> : x \in Coords}

\* a face is the three vertices of nine consecutive positions; every order
\* of the two keys occurs, and the coordinate 2 is drawn for the first vertex
\* only, which keeps the meshes few
Faces == {f \in [1..3 -> Verts] : f[2][1] # 2 /\ f[3][1] # 2}

Meshes == UNION {[1..n -> Faces] : n \in 0..MaxFaces}

\* the key `${x},${y},${z}` of a vertex
Key(vert) == <<Round(vert[1]), Round(vert[2]), Round(vert[3])>>

\* vertexToFaces.get(key): the faces pushed under key by the build loop, one
\* entry for every vertex of a face that has the key, in loop order
VertexToFaces(P, key) ==
  LET slots == [k \in 1..(3 * Len(P)) |-> <<((k - 1) \div 3) + 1, ((k - 1) % 3) + 1>>]
      hit == SelectSeq(slots, LAMBDA sl : Key(P[sl[1]][sl[2]]) = key)
  IN [k \in 1..Len(hit) |-> hit[k][1]]

\* for (const nFace of neighborFaces): mark and enqueue the unvisited ones
RECURSIVE Enqueue(_, _)
Enqueue(ns, st) ==
  IF ns = <<>> THEN st
  ELSE LET n == Head(ns) IN
       Enqueue(Tail(ns),
               IF n \notin st.visited
               THEN [st EXCEPT !.visited = @ \cup {n}, !.queue = Append(@, n)]
               ELSE st)

\* the neighbour lists of the three vertices of a face, in the order read
Neighbors_firstVertexOnly(P, faceIdx) == VertexToFaces(P, Key(P[faceIdx][1]))

Neighbors(P, faceIdx) ==
  VertexToFaces(P, Key(P[faceIdx][1])) \o VertexToFaces(P, Key(P[faceIdx][2]))
    \o VertexToFaces(P, Key(P[faceIdx][3]))

\* while (queue.length > 0): st is [queue, visited, current]
RECURSIVE While(_, _)
While(P, st) ==
  IF st.queue = <<>> THEN st
  ELSE LET faceIdx == Head(st.queue)
           st1 == [st EXCEPT !.queue = Tail(@), !.current = Append(@, faceIdx)]
       IN While(P, Enqueue(Neighbors(P, faceIdx), st1))

\* the faces of currentIslandFaces copied into one island
Island_reversed(P, N, faces) ==
  [position |-> [j \in 1..Len(faces) |-> P[faces[Len(faces) + 1 - j]]],
   normal |-> [j \in 1..Len(faces) |-> N[faces[Len(faces) + 1 - j]]]]

Island_normalsBySlot(P, N, faces) ==
  [position |-> [j \in 1..Len(faces) |-> P[faces[j]]],
   normal |-> [j \in 1..Len(faces) |-> N[j]]]

Island(P, N, faces) ==
  [position |-> [j \in 1..Len(faces) |-> P[faces[j]]],
   normal |-> [j \in 1..Len(faces) |-> N[faces[j]]]]

\* for (let i = 0; i < numFaces; i++): the scan for seeds from face i on
RECURSIVE Scan_newestFirst(_, _, _, _, _)
Scan_newestFirst(P, N, i, visited, out) ==
  IF i > Len(P) THEN out
  ELSE IF i \in visited THEN Scan_newestFirst(P, N, i + 1, visited, out)
  ELSE LET st == While(P, [queue |-> <<i>>, visited |-> visited \cup {i},
                           current |-> <<>>])
       IN Scan_newestFirst(P, N, i + 1, st.visited, <<Island(P, N, st.current)>> \o out)

RECURSIVE Scan_forgetsVisited(_, _, _, _, _)
Scan_forgetsVisited(P, N, i, visited, out) ==
  IF i > Len(P) THEN out
  ELSE IF i \in visited THEN Scan_forgetsVisited(P, N, i + 1, visited, out)
  ELSE LET st == While(P, [queue |-> <<i>>, visited |-> visited \cup {i},
                           current |-> <<>>])
       IN Scan_forgetsVisited(P, N, i + 1, visited, Append(out, Island(P, N, st.current)))

RECURSIVE Scan_pushesEmpty(_, _, _, _, _)
Scan_pushesEmpty(P, N, i, visited, out) ==
  IF i > Len(P) THEN out
  ELSE IF i \in visited
       THEN Scan_pushesEmpty(P, N, i + 1, visited, Append(out, Island(P, N, <<>>)))
  ELSE LET st == While(P, [queue |-> <<i>>, visited |-> visited \cup {i},
                           current |-> <<>>])
       IN Scan_pushesEmpty(P, N, i + 1, st.visited, Append(out, Island(P, N, st.current)))

RECURSIVE Scan(_, _, _, _, _)
Scan(P, N, i, visited, out) ==
  IF i > Len(P) THEN out
  ELSE IF i \in visited THEN Scan(P, N, i + 1, visited, out)
  ELSE LET st == While(P, [queue |-> <<i>>, visited |-> visited \cup {i},
                           current |-> <<>>])
       IN Scan(P, N, i + 1, st.visited, Append(out, Island(P, N, st.current)))

separateIslands(P, N) == Scan(P, N, 1, {}, <<>>)

\* islWorker is given a request: any mesh of at most MaxFaces faces; the
\* nine normals of face i are written i, so every face keeps a distinct
\* normal block
SegInit ==
  /\ Mounted
  /\ XferIdle
  /\ PortIdle
  /\ CsgIdle
  /\ RawIdle
  /\ positions \in Meshes
  /\ normals = [i \in 1..Len(positions) |-> i]
  /\ islands = <<>>
  /\ segmented = FALSE

\* islWorker self.onmessage
IslOnMessage ==
  /\ ~segmented
  /\ islands' = separateIslands(positions, normals)
  /\ segmented' = TRUE
  /\ UNCHANGED <<sceneVars, storeVars, laneVars, tasks, nextTask, nextMesh, dispatch,
                 isDrawing, points, events, lastOp, positions, normals, portVars,
                 csgRun, raw, xfer>>

SegNext == IslOnMessage

SegSpec == SegInit /\ [][SegNext]_vars

\* ---- useWebWorker: one worker and its dispatch function ----
\* postCsgWorker and postIslWorker are the same function over csgWorkerRef
\* and islWorkerRef; what follows is either of them with its worker. The
\* worker here is any script: it may answer a request with a message of any
\* shape or fail with an error event.

FutureIds == 1..MaxRequests

\* what a worker may post for a request: {success: true, ...},
\* {success: false, error}, an object without success, and no data
Datas == {"ok", "fail", "noflag", "absent"}

PortEvents == [kind : {"message"}, data : Datas] \cup {[kind |-> "error", data |-> "none"]}

\* a promise: its state, the event its listener was called with, and the
\* number of postMessage calls made for it
NewFuture(state, posts) == [state |-> state, saw |-> "none", posts |-> posts]

\* a step of the worker and its dispatch function leaves the scene, the
\* store and the request before islWorker alone
PortStays ==
  UNCHANGED <<sceneVars, storeVars, laneVars, tasks, nextTask, nextMesh, dispatch,
              isDrawing, points, events, lastOp, segVars, csgRun, raw, xfer>>

\* the body of useEffect: the worker is created and stored in the ref
PortMount ==
  /\ worker = "null"
  /\ worker' = "live"
  /\ UNCHANGED <<futures, port>>
  /\ PortStays

\* postCsgWorker / postIslWorker up to postMessage
PortPost ==
  /\ worker # "terminated"
  /\ Len(futures) < MaxRequests
  /\ LET k == Len(futures) + 1 IN
     IF worker = "null"
     THEN \* if (!CSGWorker) return reject(...)
          /\ futures' = Append(futures, NewFuture("rejected", 0))
          /\ UNCHANGED <<worker, port>>
     ELSE /\ futures' = Append(futures, NewFuture("pending", 1))
          /\ port' = [port EXCEPT !.listeners = Append(@, k), !.errs = Append(@, k),
                                  !.inbox = Append(@, k)]
          /\ UNCHANGED worker
  /\ PortStays

\* the worker takes its oldest request and posts a message for it, or an
\* exception leaves its handler and an error event goes to the main thread
PortWorkerRun ==
  /\ worker = "live"
  /\ port.inbox # <<>>
  /\ \E ev \in PortEvents :
       port' = [port EXCEPT !.inbox = Tail(@), !.outbox = Append(@, ev)]
  /\ UNCHANGED <<worker, futures>>
  /\ PortStays

\* the main thread starts to dispatch the oldest event of the worker to the
\* listeners attached at this moment
PortDeliver ==
  /\ worker = "live"
  /\ port.todo = <<>>
  /\ port.outbox # <<>>
  /\ LET ev == Head(port.outbox)
         called == IF ev.kind = "error" THEN port.errs ELSE port.listeners
     IN port' = [port EXCEPT !.outbox = Tail(@),
                             !.ev = IF called = <<>> THEN "none" ELSE ev,
                             !.todo = called]
  /\ UNCHANGED <<worker, futures>>
  /\ PortStays

\* the promise of handleMessage / handleError called with ev
Settle(fut, ev) ==
  IF ev.kind = "error"
  THEN \* handleError: reject(err)
       [fut EXCEPT !.saw = "error", !.state = "rejected"]
  ELSE \* handleMessage
       CASE ev.data = "absent" ->
              \* e.data.success throws: neither resolve nor reject is reached
              [fut EXCEPT !.saw = "absent"]
         [] ev.data = "ok" -> [fut EXCEPT !.saw = "ok", !.state = "resolved"]
         [] OTHER -> [fut EXCEPT !.saw = ev.data, !.state = "rejected"]

\* handleMessage or handleError of the next listener: both listeners of its
\* promise are removed, then the promise is settled
PortListener ==
  /\ port.todo # <<>>
  /\ LET k == Head(port.todo) IN
     /\ futures' = [futures EXCEPT ![k] = Settle(@, port.ev)]
     /\ port' = [port EXCEPT !.listeners = Without(@, k),
                             !.errs = Without(@, k),
                             !.todo = Tail(@),
                             !.ev = IF Len(port.todo) = 1 THEN "none" ELSE @]
  /\ UNCHANGED worker
  /\ PortStays

\* the cleanup of useEffect: terminate(); the worker stops, and what it had
\* still to handle and what it had posted is discarded
PortUnmount ==
  /\ worker = "live"
  /\ port.todo = <<>>
  /\ worker' = "terminated"
  /\ port' = [port EXCEPT !.inbox = <<>>, !.outbox = <<>>]
  /\ UNCHANGED futures
  /\ PortStays

PortInit ==
  /\ Mounted
  /\ XferIdle
  /\ SegIdle
  /\ CsgIdle
  /\ RawIdle
  /\ worker = "null"
  /\ futures = <<>>
  /\ port = NoPort

PortNext ==
  \/ PortMount
  \/ PortPost
  \/ PortWorkerRun
  \/ PortDeliver
  \/ PortListener
  \/ PortUnmount

\* the worker thread and the event loop of the main thread keep running
PortSpec ==
  /\ PortInit
  /\ [][PortNext]_vars
  /\ WF_vars(PortWorkerRun)
  /\ WF_vars(PortDeliver)
  /\ WF_vars(PortListener)

\* ---- CSGWorker: one run of self.onmessage ----

\* the geometry evaluator.evaluate returns: its triangles, whether it has a
\* position and a normal attribute (a geometry with triangles has positions),
\* whether it has an index, and whether its position and normal arrays lie in
\* one ArrayBuffer (postMessage then throws: a buffer listed twice)
Geometries ==
  {g \in [tris : 0..MaxTris, hasPosition : BOOLEAN, hasNormal : BOOLEAN,
          indexed : BOOLEAN, shared : BOOLEAN] :
     /\ g.tris > 0 => g.hasPosition
     /\ g.shared => (g.hasPosition /\ g.hasNormal)}

\* what a run meets: the operation asked for, and either an exception
\* before the result is there (createGeo, Brush, evaluate) or the result
CsgRuns ==
  [type : {"union", "sub", "intersect"}, throws : {TRUE}, geo : {"none"}]
    \cup [type : {"union", "sub", "intersect"}, throws : {FALSE}, geo : Geometries]

\* lines 61-74: position, normal and index of the message
CsgResultMsg_emptyFails(geo) ==
  IF geo.tris = 0 \/ ~geo.hasPosition
  THEN [success |-> FALSE, error |-> "string"]
  ELSE [success |-> TRUE,
        position |-> 9 * geo.tris,
        normal |-> IF geo.hasNormal THEN 9 * geo.tris ELSE 0,
        index |-> geo.indexed]

CsgResultMsg(geo) ==
  [success |-> TRUE,
   position |-> IF geo.hasPosition THEN 9 * geo.tris ELSE 0,
   normal |-> IF geo.hasNormal THEN 9 * geo.tris ELSE 0,
   index |-> geo.indexed]

CsgStays ==
  UNCHANGED <<sceneVars, storeVars, laneVars, tasks, nextTask, nextMesh, dispatch,
              isDrawing, points, events, lastOp, segVars, portVars, raw, xfer>>

\* try { createGeo, Brush, evaluate }: the result is there or an exception
\* goes to the catch
CsgEvaluate ==
  /\ csgRun.pc = "start"
  /\ csgRun' = [csgRun EXCEPT !.pc = IF csgRun.run.throws THEN "caught" ELSE "evaluated"]
  /\ CsgStays

\* self.postMessage({success: true, result}, transfer)
CsgPostResult ==
  /\ csgRun.pc = "evaluated"
  /\ csgRun' = IF csgRun.run.geo.shared
               THEN [csgRun EXCEPT !.pc = "caught"]
               ELSE [csgRun EXCEPT !.pc = "posted",
                                   !.posted = Append(@, CsgResultMsg(csgRun.run.geo))]
  /\ CsgStays

\* geoA.dispose(); geoB.dispose(); resultGeo.dispose(): dispose only
\* dispatches an event to the listeners of the geometry, of which the
\* worker has none
CsgDispose_throws ==
  /\ csgRun.pc = "posted"
  /\ csgRun' = [csgRun EXCEPT !.pc = "caught"]
  /\ CsgStays

CsgDispose ==
  /\ csgRun.pc = "posted"
  /\ csgRun' = [csgRun EXCEPT !.pc = "done"]
  /\ CsgStays

\* catch (err): self.postMessage({success: false, error})
CsgCatch ==
  /\ csgRun.pc = "caught"
  /\ csgRun' = [csgRun EXCEPT !.pc = "done",
                              !.posted = Append(@, [success |-> FALSE, error |-> "string"])]
  /\ CsgStays

\* a request arrives at the worker
CsgInit ==
  /\ Mounted
  /\ XferIdle
  /\ SegIdle
  /\ PortIdle
  /\ RawIdle
  /\ \E run \in CsgRuns : csgRun = [pc |-> "start", posted |-> <<>>, run |-> run]

CsgNext ==
  \/ CsgEvaluate
  \/ CsgPostResult
  \/ CsgDispose
  \/ CsgCatch

CsgSpec == CsgInit /\ [][CsgNext]_vars

\* ---- islWorker: one run of self.onmessage on any Float32Array ----

\* the positions of a request: whole triangles followed by the 0 to 8
\* numbers of a partial one
Tails == {[k \in 1..n |-> IF k = 1 THEN x ELSE 0] : n \in 0..8, x \in Coords}

Requests == [faces : UNION {[1..n -> Faces] : n \in 0..MaxWhole}, tail : Tails]

\* positions[k], k counted from 0: <<c>>, or <<>> for the undefined read
\* beyond the end of a typed array
RawAt(rq, k) ==
  LET whole == 9 * Len(rq.faces) IN
  IF k < whole
  THEN <<rq.faces[(k \div 9) + 1][((k % 9) \div 3) + 1][(k % 3) + 1]>>
  ELSE IF k - whole < Len(rq.tail) THEN <<rq.tail[k - whole + 1]>> ELSE <<>>

\* Math.round(positions[k] * precision); undefined gives NaN
RawRound(c) == IF c = <<>> THEN <<>> ELSE <<Round(c[1])>>

\* the key of vertex v of face i (faces counted from 1)
RawKey(rq, i, v) ==
  LET at == (i - 1) * 9 + (v - 1) * 3 IN
  <<RawRound(RawAt(rq, at)), RawRound(RawAt(rq, at + 1)), RawRound(RawAt(rq, at + 2))>>

\* for (let i = 0; i < numFaces; i++) with numFaces = positions.length / 9:
\* the partial triangle is one more round of the loop
NumRounds(rq) == Len(rq.faces) + IF rq.tail = <<>> THEN 0 ELSE 1

\* new Uint8Array(numFaces): the length is numFaces without its fraction
NewFaceVisited(rq) == [i \in 1..Len(rq.faces) |-> FALSE]

\* faceVisited[i] read and faceVisited[i] = 1: beyond the length the read
\* is undefined and the write does nothing
IsVisited(fv, i) == i \in DOMAIN fv /\ fv[i]

Visit(fv, i) == IF i \in DOMAIN fv THEN [fv EXCEPT ![i] = TRUE] ELSE fv

\* vertexToFaces.get(key) after the build loop
RawVertexToFaces(rq, key) ==
  LET slots == [k \in 1..(3 * NumRounds(rq)) |-> <<((k - 1) \div 3) + 1, ((k - 1) % 3) + 1>>]
      hit == SelectSeq(slots, LAMBDA sl : RawKey(rq, sl[1], sl[2]) = key)
  IN [k \in 1..Len(hit) |-> hit[k][1]]

RawNeighbors(rq, faceIdx) ==
  RawVertexToFaces(rq, RawKey(rq, faceIdx, 1)) \o RawVertexToFaces(rq, RawKey(rq, faceIdx, 2))
    \o RawVertexToFaces(rq, RawKey(rq, faceIdx, 3))

RawStays ==
  UNCHANGED <<sceneVars, storeVars, laneVars, tasks, nextTask, nextMesh, dispatch,
              isDrawing, points, events, lastOp, segVars, portVars, csgRun, xfer>>

\* lines 6-22: numFaces, faceVisited, islands and the build loop
RawBuild ==
  /\ raw.pc = "start"
  /\ raw' = [raw EXCEPT !.pc = "scan", !.faceVisited = NewFaceVisited(raw.rq)]
  /\ RawStays

\* lines 24-29: one round of the scan loop up to the while loop
RawSeed ==
  /\ raw.pc = "scan"
  /\ raw.i <= NumRounds(raw.rq)
  /\ raw' = IF IsVisited(raw.faceVisited, raw.i)
            THEN [raw EXCEPT !.i = @ + 1]
            ELSE [raw EXCEPT !.pc = "while",
                             !.queue = <<raw.i>>,
                             !.current = <<>>,
                             !.faceVisited = Visit(@, raw.i)]
  /\ RawStays

\* lines 32-40: faceIdx leaves the queue; its neighbour lists are read
RawDequeue ==
  /\ raw.pc = "while"
  /\ raw.pending = <<>>
  /\ raw.queue # <<>>
  /\ Len(raw.current) < MaxDequeue
  /\ raw' = [raw EXCEPT !.current = Append(@, Head(raw.queue)),
                        !.queue = Tail(@),
                        !.pending = RawNeighbors(raw.rq, Head(raw.queue))]
  /\ RawStays

\* lines 41-46: for (const nFace of neighborFaces), one neighbour
RawVisit_noMark ==
  /\ raw.pc = "while"
  /\ raw.pending # <<>>
  /\ LET nFace == Head(raw.pending) IN
     raw' = IF ~IsVisited(raw.faceVisited, nFace)
            THEN [raw EXCEPT !.pending = Tail(@),
                             !.queue = Append(@, nFace)]
            ELSE [raw EXCEPT !.pending = Tail(@)]
  /\ RawStays

RawVisit ==
  /\ raw.pc = "while"
  /\ raw.pending # <<>>
  /\ LET nFace == Head(raw.pending) IN
     raw' = IF ~IsVisited(raw.faceVisited, nFace)
            THEN [raw EXCEPT !.pending = Tail(@),
                             !.faceVisited = Visit(@, nFace),
                             !.queue = Append(@, nFace)]
            ELSE [raw EXCEPT !.pending = Tail(@)]
  /\ RawStays

\* lines 50-57: the queue is empty, the island is pushed
RawEmit ==
  /\ raw.pc = "while"
  /\ raw.pending = <<>>
  /\ raw.queue = <<>>
  /\ raw' = [raw EXCEPT !.pc = "scan",
                        !.i = @ + 1,
                        !.islands = Append(@, raw.current),
                        !.current = <<>>]
  /\ RawStays

\* lines 59 and 63-65: return islands; postMessage({success: true, result})
RawPost ==
  /\ raw.pc = "scan"
  /\ raw.i > NumRounds(raw.rq)
  /\ raw' = [raw EXCEPT !.pc = "done",
                        !.posted = Append(@, [success |-> TRUE, result |-> raw.islands])]
  /\ RawStays

\* a request arrives at the worker
RawInit ==
  /\ Mounted
  /\ XferIdle
  /\ SegIdle
  /\ PortIdle
  /\ CsgIdle
  /\ \E rq \in Requests :
       raw = [pc |-> "start", posted |-> <<>>, rq |-> rq, i |-> 1, queue |-> <<>>,
              pending |-> <<>>, current |-> <<>>, islands |-> <<>>,
              faceVisited |-> <<>>]

RawNext ==
  \/ RawBuild
  \/ RawSeed
  \/ RawDequeue
  \/ RawVisit
  \/ RawEmit
  \/ RawPost

\* the worker runs its handler to the end when the loops end
RawSpec == RawInit /\ [][RawNext]_vars /\ WF_vars(RawNext)

\* a request of whole triangles arrives at the worker
WholeRequests == [faces : UNION {[1..n -> Faces] : n \in 0..MaxRun}, tail : {<<>>}]

WholeInit ==
  /\ Mounted
  /\ XferIdle
  /\ SegIdle
  /\ PortIdle
  /\ CsgIdle
  /\ \E rq \in WholeRequests :
       raw = [pc |-> "start", posted |-> <<>>, rq |-> rq, i |-> 1, queue |-> <<>>,
              pending |-> <<>>, current |-> <<>>, islands |-> <<>>,
              faceVisited |-> <<>>]

WholeSpec == WholeInit /\ [][RawNext]_vars /\ WF_vars(RawNext)

\* ---- the buffers that cross the worker boundary ----

Op(op, buf) == [op |-> op, buf |-> buf]

\* a typed array made from another: the source is read, the new one written
Copy(from, to) == <<Op("read", from), Op("write", to)>>

RECURSIVE Flat(_)
Flat(seqs) == IF seqs = <<>> THEN <<>> ELSE Head(seqs) \o Flat(Tail(seqs))

\* the buffers named in ops under the operation op
Bufs(ops, op) == {ops[j].buf : j \in {i \in 1..Len(ops) : ops[i].op = op}}

\* applySubtraction 507-511 and postCsgWorker 265-289: clone and
\* mergeVertices of the target's and the cutter's geometry, slice() of their
\* arrays into the message, the buffers of the message in the transfer list
PostCsgOps_transfersLive(target, k) ==
  <<Op("read", target), Op("transfer", target),
    Op("read", Buf("cutter", k, 0)), Op("transfer", Buf("cutter", k, 0))>>

PostCsgOps(target, k) ==
  Copy(target, Buf("targetGeo", k, 0)) \o Copy(Buf("cutter", k, 0), Buf("cutterGeo", k, 0))
    \o Copy(Buf("targetGeo", k, 0), Buf("csgMsgA", k, 0))
    \o Copy(Buf("cutterGeo", k, 0), Buf("csgMsgB", k, 0))
    \o <<Op("transfer", Buf("csgMsgA", k, 0)), Op("transfer", Buf("csgMsgB", k, 0))>>

\* CSGWorker onmessage 9-99: the geometries are made over the arrays
\* received, the result's own arrays are posted with transfer, then the
\* three geometries are disposed; a failure posts no buffer
CsgWorkerOps(k, ok) ==
  <<Op("read", Buf("csgMsgA", k, 0)), Op("read", Buf("csgMsgB", k, 0))>>
    \o IF ok
       THEN <<Op("write", Buf("csgRes", k, 0)), Op("transfer", Buf("csgRes", k, 0)),
              Op("dispose", Buf("csgMsgA", k, 0)), Op("dispose", Buf("csgMsgB", k, 0)),
              Op("dispose", Buf("csgRes", k, 0))>>
       ELSE <<>>

\* applySubtraction 518-522, then postIslWorker 314-325: the arrays of the
\* response are copied into newGeo; the mesh's geometry is cloned, the
\* clone's arrays are sliced into the message and those are transferred
OnCsgOps(k) ==
  Copy(Buf("csgRes", k, 0), Buf("newGeo", k, 0))
    \o Copy(Buf("newGeo", k, 0), Buf("geo", k, 0))
    \o Copy(Buf("geo", k, 0), Buf("islMsg", k, 0))
    \o <<Op("transfer", Buf("islMsg", k, 0))>>

\* islWorker onmessage 62-65: every island has new arrays (lines 50-55),
\* which are posted with transfer
IslWorkerOps(k, n) ==
  Flat([j \in 1..n |-> Copy(Buf("islMsg", k, 0), Buf("island", k, j))])
    \o [j \in 1..n |-> Op("transfer", Buf("island", k, j))]

\* getSeparateMeshes 545-554 and handleFinDrawing 621-623: the arrays
\* received are the attributes of the new meshes; the subtraction result
\* is disposed
OnIslOps(k, n) == <<Op("dispose", Buf("newGeo", k, 0))>>

XferStays ==
  UNCHANGED <<sceneVars, storeVars, laneVars, tasks, nextTask, nextMesh, dispatch,
              isDrawing, points, events, lastOp, segVars, portVars, csgRun, raw>>

\* what a handler on side sd does to the buffers
Did(sd, ops) ==
  [xfer EXCEPT !.side = sd, !.ops = ops,
               !.gone = [@ EXCEPT ![sd] = @ \cup Bufs(ops, "transfer")]]

\* a stroke's next subtraction: a mesh of the scene and the stroke's cutter
XferPostCsg ==
  /\ xfer.pc = "idle"
  /\ xfer.k < MaxRequests
  /\ \E target \in xfer.live :
       LET k == xfer.k + 1 IN
       xfer' = [Did("main", PostCsgOps(target, k)) EXCEPT
                  !.pc = "csg", !.k = k, !.live = @ \cup {Buf("cutter", k, 0)}]
  /\ XferStays

XferCsgWorker ==
  /\ xfer.pc = "csg"
  /\ \E ok, indexed \in BOOLEAN :
       /\ indexed => ok
       /\ xfer' = [Did("csg", CsgWorkerOps(xfer.k, ok)) EXCEPT
                     !.pc = "csgDone", !.ok = ok, !.indexed = indexed]
  /\ XferStays

\* the response arrives: a failure ends the subtraction, a success goes on
\* to the segmentation
XferOnCsg ==
  /\ xfer.pc = "csgDone"
  /\ xfer' = IF xfer.ok
             THEN [Did("main", OnCsgOps(xfer.k)) EXCEPT !.pc = "isl"]
             ELSE [Did("main", <<>>) EXCEPT !.pc = "idle"]
  /\ XferStays

XferIslWorker ==
  /\ xfer.pc = "isl"
  /\ \E n \in 0..MaxIslands :
       xfer' = [Did("isl", IslWorkerOps(xfer.k, n)) EXCEPT !.pc = "islDone", !.n = n]
  /\ XferStays

XferOnIsl ==
  /\ xfer.pc = "islDone"
  /\ xfer' = [Did("main", OnIslOps(xfer.k, xfer.n)) EXCEPT
                !.pc = "idle",
                !.live = @ \cup {Buf("island", xfer.k, j) : j \in 1..xfer.n}]
  /\ XferStays

XferInit ==
  /\ Mounted
  /\ SegIdle
  /\ PortIdle
  /\ CsgIdle
  /\ RawIdle
  /\ XferIdle

XferNext ==
  \/ XferPostCsg
  \/ XferCsgWorker
  \/ XferOnCsg
  \/ XferIslWorker
  \/ XferOnIsl

XferSpec == XferInit /\ [][XferNext]_vars


\* ======================= properties =======================

\* the closure calls and set() calls among the events of a handler
StoreTrace(ev) == SelectSeq(ev, LAMBDA e : e[1] \in {"dispose", "undo", "redo", "set"})

RECURSIVE SumReleased(_)
SumReleased(S) ==
  IF S = {} THEN 0
  ELSE LET c == CHOOSE x \in S : TRUE IN released[c] + SumReleased(S \ {c})

\* commands released so far by the redo-flush of a pushCommand
ReleasedTotal == SumReleased(CmdIds)

StackIds(stack) == {stack[i].id : i \in 1..Len(stack)}

\* a step in which pushCommand ran
PushStep == pushed' = pushed + 1

\* a step of the undo control, of the redo control (the workers and the
\* arrival of their messages leave lastOp alone but move the lanes)
UndoStep == lastOp' = "undo" /\ UNCHANGED <<laneVars, dispatch>>
RedoStep == lastOp' = "redo" /\ UNCHANGED <<laneVars, dispatch>>

\* C1: a pushCommand calls dispose exactly once on every command then on
\* redoStack, oldest first, all of it before its set() appends the new
\* command, and leaves redoStack empty.
C1_ReleaseInOrderBeforeAppend ==
  [][PushStep =>
       /\ StoreTrace(events') =
            [i \in 1..Len(redoStack) |-> <<"dispose", redoStack[i].id>>]
            \o <<<<"set", undoStack'[Len(undoStack')].id>>>>
       /\ \A c \in StackIds(redoStack) : released'[c] = released[c] + 1
       /\ \A c \in CmdIds \ StackIds(redoStack) : released'[c] = released[c]
       /\ redoStack' = <<>>]_vars

\* a push has just flushed two reverted commands
C1_Witness ==
  /\ lastOp = "push"
  /\ Len(Called(events, "dispose")) >= 2
  /\ redoStack = <<>>

\* C4: the two stacks together hold the commands pushed minus those released.
C4_StackSizeAccounting ==
  Len(undoStack) + Len(redoStack) = pushed - ReleasedTotal

C4_Witness ==
  /\ pushed >= 3
  /\ ReleasedTotal >= 1
  /\ undoStack # <<>>
  /\ redoStack # <<>>

\* C5: a command is released at most once, only while it is on redoStack and
\* not on undoStack; once released it is on neither stack and none of its
\* closures is called again.
C5_CommandLifecycle ==
  [][/\ \A c \in CmdIds :
          /\ released'[c] <= 1
          /\ released'[c] = 1 => c \notin StackIds(undoStack') \cup StackIds(redoStack')
          /\ released[c] >= 1 =>
               \A i \in 1..Len(events') :
                 events'[i][1] \in {"dispose", "undo", "redo"} => events'[i][2] # c
     /\ \A i \in 1..Len(events') :
          events'[i][1] = "dispose" =>
            /\ events'[i][2] \in StackIds(redoStack)
            /\ events'[i][2] \notin StackIds(undoStack)
     /\ StackIds(undoStack') \cap StackIds(redoStack') = {}]_vars

\* a command was released and the history went on being undone
C5_Witness ==
  /\ \E c \in CmdIds : released[c] = 1
  /\ lastOp = "undo"
  /\ Called(events, "undo") # <<>>
  /\ undoStack # <<>>

\* C7: pushCommand calls no undo and no redo closure, leaves the scene as the
\* caller's edit made it, and appends the command after the unchanged
\* earlier entries of undoStack.
C7_PushAppendsOnly ==
  [][PushStep =>
       /\ Called(events', "undo") = <<>>
       /\ Called(events', "redo") = <<>>
       /\ Len(undoStack') = Len(undoStack) + 1
       /\ SubSeq(undoStack', 1, Len(undoStack)) = undoStack
       /\ undoStack'[Len(undoStack')].id = pushed + 1
       /\ concave' = undoStack'[Len(undoStack')].nextMeshes
       /\ convex' = GroupAdd(convex, <<pushed + 1>>)]_vars

\* the scenario push cmd1, push cmd2, undo, push cmd3
C7_Witness ==
  /\ lastOp = "push"
  /\ Len(undoStack) = 2
  /\ undoStack[1].id = 1
  /\ undoStack[2].id = 3
  /\ released[2] = 1
  /\ redoStack = <<>>

\* C8: undo() changes nothing on an empty undoStack; otherwise it takes the
\* last entry off undoStack, calls its undo closure once and no other
\* closure, and appends it to redoStack.
C8_UndoPopsAndReverts ==
  [][UndoStep =>
       IF undoStack = <<>>
       THEN /\ UNCHANGED <<undoStack, redoStack, sceneVars, released>>
            /\ events' = <<>>
       ELSE LET cmd == undoStack[Len(undoStack)] IN
            /\ undoStack' = SubSeq(undoStack, 1, Len(undoStack) - 1)
            /\ redoStack' = Append(redoStack, cmd)
            /\ Called(events', "undo") = <<cmd.id>>
            /\ Called(events', "redo") = <<>>
            /\ Called(events', "dispose") = <<>>
            /\ concave' = CommandUndo(cmd, [concave |-> concave, convex |-> convex]).concave
            /\ convex' = CommandUndo(cmd, [concave |-> concave, convex |-> convex]).convex]_vars

\* an undo that left entries below it and joined an entry on redoStack
C8_Witness ==
  /\ lastOp = "undo"
  /\ Called(events, "undo") # <<>>
  /\ Len(undoStack) >= 2
  /\ Len(redoStack) >= 2

\* C9: redo() changes nothing on an empty redoStack; otherwise it takes the
\* last entry off redoStack, calls its redo closure once and no other
\* closure, and appends it to undoStack.
C9_RedoPopsAndApplies ==
  [][RedoStep =>
       IF redoStack = <<>>
       THEN /\ UNCHANGED <<undoStack, redoStack, sceneVars, released>>
            /\ events' = <<>>
       ELSE LET cmd == redoStack[Len(redoStack)] IN
            /\ redoStack' = SubSeq(redoStack, 1, Len(redoStack) - 1)
            /\ undoStack' = Append(undoStack, cmd)
            /\ Called(events', "redo") = <<cmd.id>>
            /\ Called(events', "undo") = <<>>
            /\ Called(events', "dispose") = <<>>
            /\ concave' = CommandRedo(cmd, [concave |-> concave, convex |-> convex]).concave
            /\ convex' = CommandRedo(cmd, [concave |-> concave, convex |-> convex]).convex]_vars

\* a redo that left an entry on redoStack and joined entries on undoStack
C9_Witness ==
  /\ lastOp = "redo"
  /\ Called(events, "redo") # <<>>
  /\ Len(undoStack) >= 2
  /\ Len(redoStack) >= 1


\* ---- the orchestrator with its workers ----

\* the meshes the commands of a stack refer to
Referenced(stack) ==
  UNION {Range(stack[i].nextMeshes) \cup Range(stack[i].originalState) :
           i \in 1..Len(stack)}

\* the command on a stack that carries a number
OnStack(stack, id) == CHOOSE c \in Range(stack) : c.id = id

\* C2: whenever pushCommand releases an evicted redo entry, no mesh that the
\* release disposes is at that moment a child of the concave group or
\* referenced by a command remaining on undoStack.
C2_ReleaseOnlyUnreachable ==
  [][\A i \in 1..Len(events') :
       events'[i][1] = "dispose" =>
         Range(OnStack(redoStack, events'[i][2]).nextMeshes)
           \cap (Range(concave') \cup Referenced(undoStack)) = {}]_vars

\* the futures of a stroke that were answered by a failure
FailedStroke(t) ==
  /\ tasks[t].pc \in {"csg", "isl"}
  /\ tasks'[t].pc = "done"
  /\ tasks[t].failed \/ tasks[t].pc = "csg"

\* C3: when the boolean evaluation of a stroke fails, the stroke ends
\* without pushing a command and without changing the meshes in the scene.
C3_FailedStrokeAbandoned ==
  [][\A t \in TaskIds :
       FailedStroke(t) =>
         /\ undoStack' = undoStack
         /\ Range(concave') = Range(concave)
         /\ Range(convex') = Range(convex)]_vars

\* C6: wherever undo() can run on a non-empty undoStack, undo() followed at
\* once by redo() leaves the node sets of the concave and convex groups as
\* they were.
C6_UndoRedoRestoresScene ==
  (MainIdle /\ undoStack # <<>>) =>
    LET u == undo(undoStack, redoStack)
        afterUndo == RunCalls(u.trace, Here)
        r == redo(u.undoStack, u.redoStack)
        afterRedo == RunCalls(r.trace, afterUndo)
    IN /\ Range(afterRedo.concave) = Range(concave)
       /\ Range(afterRedo.convex) = Range(convex)

\* C10: at most one request per worker lane is unsettled at any time.
C10_OneRequestPerLane ==
  /\ Len(csgListeners) <= 1
  /\ Len(islListeners) <= 1


\* C11: a future is settled by the response to its own request and by no
\* other: every listener a message event calls belongs to the request the
\* message answers.
C11_SettledByOwnResponse ==
  \A i \in 1..Len(dispatch.todo) : dispatch.todo[i] = dispatch.req


\* what handleFinDrawing leaves when its loop ends with the locals tk: the
\* nodes of the concave group and whether a command is pushed
StrokeOutcome(tk) ==
  [nodes |-> IF tk.changed
             THEN Range(GroupAdd(GroupRemove(concave, tk.rem), tk.next))
             ELSE Range(concave),
   command |-> tk.changed]

\* C14: for a stroke awaiting the boolean result of its last colliding mesh,
\* the outcome after a success with no triangles (zero islands) differs from
\* the outcome after a failed evaluation.
C14_EmptyDiffersFromFailure ==
  \A t \in TaskIds :
    tasks[t].pc = "csg" =>
      LET failure == RunLoop(Rejected(tasks[t]))
          empty == RunLoop(Separated(tasks[t], <<>>))
      IN (failure.pc = "fin" /\ empty.pc = "fin") =>
           StrokeOutcome(failure) # StrokeOutcome(empty)

\* C20: no segment request carries the arrays of a geometry that has an
\* index buffer.
C20_SegmentRequestNonIndexed ==
  \A i \in 1..Len(islInbox) : ~islInbox[i].indexed


\* ---- properties of separateIslands ----

\* the faces of the request and of the islands put one after the other, each
\* face with its normals
InFaces == [i \in 1..Len(positions) |-> <<positions[i], normals[i]>>]

RECURSIVE OutFaces(_)
OutFaces(isls) ==
  IF isls = <<>> THEN <<>>
  ELSE LET h == Head(isls) IN
       [j \in 1..Len(h.position) |-> <<h.position[j], h.normal[j]>>] \o OutFaces(Tail(isls))

Count(seq, x) == Cardinality({j \in 1..Len(seq) : seq[j] = x})

SameFaces(a, b) == \A x \in Range(a) \cup Range(b) : Count(a, x) = Count(b, x)

\* the islands that hold input face i
IslandsOf(i) ==
  {k \in 1..Len(islands) : <<positions[i], normals[i]>> \in Range(OutFaces(<<islands[k]>>))}

\* two faces share a quantized vertex key
Adjacent(i, j) ==
  \E v \in 1..3, w \in 1..3 : Key(positions[i][v]) = Key(positions[j][w])

\* the faces linked to those of S by a chain of adjacent faces
RECURSIVE Linked(_)
Linked(S) ==
  LET T == S \cup {j \in 1..Len(positions) : \E i \in S : Adjacent(i, j)}
  IN IF T = S THEN S ELSE Linked(T)

\* C15: the islands, put one after the other, hold every face of the
\* request exactly once: no face is lost and none is duplicated.
C15_IslandsPartitionFaces ==
  segmented =>
    /\ SameFaces(OutFaces(islands), InFaces)
    /\ \A i \in 1..Len(positions) : Cardinality(IslandsOf(i)) = 1

C15_Witness ==
  /\ segmented
  /\ Len(positions) = MaxFaces
  /\ Len(islands) = 2

\* C16: two faces are in the same island exactly when a chain of faces,
\* each sharing a quantized vertex key with the next, links them.
C16_IslandsAreComponents ==
  segmented =>
    \A i \in 1..Len(positions), j \in 1..Len(positions) :
      (IslandsOf(i) \cap IslandsOf(j) # {}) <=> (j \in Linked({i}))

C16_Witness ==
  /\ segmented
  /\ \E i \in 1..Len(positions), j \in 1..Len(positions) :
       /\ ~Adjacent(i, j)
       /\ IslandsOf(i) \cap IslandsOf(j) # {}
       /\ \E v \in 1..3, w \in 1..3, m \in 1..Len(positions) :
            /\ positions[i][v] # positions[m][w]
            /\ Key(positions[i][v]) = Key(positions[m][w])

\* C17: the first face of every island is the lowest face of the request
\* that no earlier island holds.
C17_IslandsInSeedOrder ==
  segmented =>
    \A k \in 1..Len(islands) :
      LET before == UNION {Range(islands[m].normal) : m \in 1..(k - 1)} IN
      /\ Len(islands[k].normal) > 0
      /\ \E i \in 1..Len(positions) :
           /\ normals[i] \notin before
           /\ \A j \in 1..(i - 1) : normals[j] \in before
           /\ islands[k].normal[1] = normals[i]
           /\ islands[k].position[1] = positions[i]

C17_Witness ==
  /\ segmented
  /\ Len(islands) = 2
  /\ islands[1].normal = <<1, 2>>
  /\ islands[2].normal = <<3>>

\* C18: a request without faces gives no island, a request with faces gives
\* at least one, and no island is without faces.
C18_EmptyOnlyForEmpty ==
  segmented =>
    /\ (Len(positions) = 0) <=> (islands = <<>>)
    /\ \A k \in 1..Len(islands) :
         Len(islands[k].position) > 0 /\ Len(islands[k].normal) > 0

C18_Witness ==
  /\ segmented
  /\ positions = <<>>
  /\ islands = <<>>

\* separateIslands given an island again returns that island alone
Resegmented(isl) == separateIslands(isl.position, isl.normal) = <<isl>>

\* C19 as stated: a request that is one island comes back as one island with
\* the position and normal arrays of the request, and every island given to
\* separateIslands again comes back unchanged.
C19_SingleIslandSameArrays ==
  segmented =>
    /\ Len(islands) = 1 => (islands[1].position = positions /\ islands[1].normal = normals)
    /\ \A k \in 1..Len(islands) : Resegmented(islands[k])

\* C19 amended: a request that is one island comes back as one island that
\* holds the faces of the request, each once, in the order the traversal
\* reached them; every island given to separateIslands again comes back
\* unchanged.
C19_SingleIslandSameFaces ==
  segmented =>
    /\ Len(islands) = 1 =>
         /\ SameFaces(OutFaces(islands), InFaces)
         /\ islands[1].position[1] = positions[1]
    /\ \A k \in 1..Len(islands) : Resegmented(islands[k])

C19_Witness ==
  /\ segmented
  /\ Len(islands) = 1
  /\ islands[1].position # positions


\* ---- properties of the dispatch function ----

InFlight(k) == k <= Len(futures) /\ futures[k].state = "pending"

HasRejected(k) == k <= Len(futures) /\ futures[k].state = "rejected"

\* C12: a promise that is pending when the workers are terminated is
\* rejected at some later time.
C12_TeardownRejectsInFlight ==
  \A k \in FutureIds :
    [](worker = "terminated" /\ InFlight(k) => <>HasRejected(k))

\* C13: a promise made without a worker, or whose listener was called with
\* an error event, with a message without data or with data without a
\* success flag, is rejected; a promise is resolved only with a
\* {success: true} message; no request is posted twice.
C13_FailuresReject ==
  \A k \in 1..Len(futures) :
    /\ futures[k].posts = 0 => futures[k].state = "rejected"
    /\ futures[k].saw \in {"error", "absent", "noflag"} => futures[k].state = "rejected"
    /\ futures[k].state = "resolved" => futures[k].saw = "ok"
    /\ futures[k].posts <= 1


\* ---- properties of strokes that overlap ----

\* no call of handleFinDrawing is suspended at an await
Quiet == \A t \in TaskIds : tasks[t].pc \notin {"csg", "isl"}

\* the scene sc after the redo closures of a stack, oldest first
RECURSIVE Replay(_, _)
Replay(stack, sc) ==
  IF stack = <<>> THEN sc ELSE Replay(Tail(stack), CommandRedo(Head(stack), sc))

\* the scene sc after the undo closures of a stack, newest first
RECURSIVE Unwind(_, _)
Unwind(stack, sc) ==
  IF stack = <<>> THEN sc
  ELSE Unwind(SubSeq(stack, 1, Len(stack) - 1), CommandUndo(stack[Len(stack)], sc))

\* C29: a stroke that ends swaps the scene whose meshes it snapshotted;
\* and whenever no stroke is awaiting a worker, the meshes of the concave
\* group are the initial mesh with the commands of undoStack applied oldest
\* first, and undoing every command of undoStack gives the initial mesh back.
C29_SceneMatchesHistory ==
  [][/\ \A t \in TaskIds :
          (tasks[t].pc \in {"csg", "isl"} /\ tasks'[t].pc = "done") =>
            Range(tasks[t].cur) = Range(concave)
     /\ (Quiet /\ MainIdle)' =>
          /\ Range(Replay(undoStack', [concave |-> <<0>>, convex |-> <<>>]).concave)
               = Range(concave')
          /\ Range(Unwind(undoStack', [concave |-> concave', convex |-> convex']).concave)
               = {0}]_vars

\* the requests, the swap and the push of the handler that ran last
StrokeSteps == SelectSeq(events, LAMBDA e : e[1] \in {"postCsg", "postIsl", "swap", "push"})

\* C30: a stroke goes from a CSG request to the response to that request,
\* then to the segment request and the response to it, target by target, and
\* ends with one swap followed by one push; while it still awaits a worker it
\* has changed neither the scene nor the stacks.
C30_StrokeStepOrder ==
  [][\A t \in TaskIds :
       tasks'[t] # tasks[t] =>
         /\ tasks'[t].pc # tasks[t].pc =>
              <<tasks[t].pc, tasks'[t].pc>> \in
                {<<"none", "csg">>, <<"none", "done">>, <<"csg", "isl">>, <<"csg", "csg">>,
                 <<"csg", "done">>, <<"isl", "csg">>, <<"isl", "done">>,
                 <<"isl", "rejected">>}
         /\ tasks'[t].pc \in {"csg", "isl"} =>
              UNCHANGED <<concave, convex, undoStack, redoStack>>
         /\ StrokeSteps' \in {<<>>, <<<<"postCsg", t>>>>, <<<<"postIsl", t>>>>,
                              <<<<"swap", t>>, <<"push", t>>>>}
         /\ tasks[t].pc \in {"csg", "isl"} => dispatch.req = t]_vars


\* C25: a stroke changes neither the scene nor the stacks while it awaits a
\* worker, and when its segmentation promise rejects it ends there: the
\* stacks and the nodes of both groups stay as they are, no command is
\* pushed and no request is posted again.
C25_SegmentRejectionAbandons ==
  [][\A t \in TaskIds :
       /\ (tasks'[t] # tasks[t] /\ tasks'[t].pc \in {"csg", "isl"}) =>
            UNCHANGED <<concave, convex, undoStack, redoStack, pushed>>
       /\ (tasks[t].pc = "isl" /\ tasks'[t] # tasks[t] /\ ~dispatch.ok) =>
         /\ tasks'[t].pc = "rejected"
         /\ UNCHANGED <<concave, convex, undoStack, redoStack, pushed>>
         /\ UNCHANGED <<csgInbox, islInbox>>
         /\ StrokeSteps' = <<>>]_vars

C25_Witness ==
  \E t \in TaskIds :
    /\ tasks[t].pc = "rejected"
    /\ lastOp = "islListener"
    /\ concave = <<0>>
    /\ undoStack = <<>>


\* ---- properties of CSGWorker's onmessage ----

SuccessForm(m) ==
  /\ DOMAIN m = {"success", "position", "normal", "index"}
  /\ m.success = TRUE

FailureForm(m) ==
  /\ DOMAIN m = {"success", "error"}
  /\ m.success = FALSE
  /\ m.error = "string"

\* C23: a run of the CSG worker posts one message, of the success form or
\* of the failure form; an exception gives the failure form, and nothing
\* follows a success.
C23_OneCsgResponse ==
  /\ Len(csgRun.posted) <= 1
  /\ csgRun.pc = "done" =>
       /\ Len(csgRun.posted) = 1
       /\ SuccessForm(csgRun.posted[1]) \/ FailureForm(csgRun.posted[1])
       /\ (csgRun.run.throws \/ csgRun.run.geo.shared) <=> FailureForm(csgRun.posted[1])

C23_Witness ==
  /\ csgRun.pc = "done"
  /\ csgRun.run.throws
  /\ Len(csgRun.posted) = 1

Malformed == raw.pc # "idle" /\ raw.rq.tail # <<>>

\* C22: a request whose position count is no whole number of triangles
\* ends in an error: no result is posted for it, no face is taken from the
\* queue twice (the while loop comes to its end), and no face that lies
\* beyond the end of the array is worked on.
C22_MalformedFailsLoudly ==
  Malformed =>
    /\ \A k \in 1..Len(raw.posted) : raw.posted[k].success = FALSE
    /\ \A j, k \in 1..Len(raw.current) : raw.current[j] = raw.current[k] => j = k
    /\ \A k \in 1..Len(raw.current) : raw.current[k] <= Len(raw.rq.faces)
    /\ raw.pc = "done" => Len(raw.posted) = 1

Disciplined(gone, ops) ==
  \A j \in 1..Len(ops) :
    ops[j].op \in {"read", "write", "transfer"} =>
      /\ ops[j].buf \notin gone
      /\ \A i \in 1..(j - 1) : ~(ops[i].op = "transfer" /\ ops[i].buf = ops[j].buf)

\* C21: after a buffer was posted with transfer the sending side does not
\* read or write it again, and the arrays of the geometry in the scene,
\* from which the payload was made, are never transferred.
C21_TransferDiscipline ==
  [][/\ Disciplined(xfer.gone[xfer'.side], xfer'.ops)
     /\ xfer'.side = "main" => Bufs(xfer'.ops, "transfer") \cap xfer'.live = {}
     /\ xfer'.gone["main"] \cap xfer'.live = {}]_vars

C21_Witness ==
  /\ xfer.pc = "idle"
  /\ xfer.k = 2
  /\ Buf("island", 1, 1) \in xfer.live
  /\ Buf("csgMsgA", 2, 0) \in xfer.gone["main"]
  /\ Buf("island", 2, 2) \in xfer.gone["isl"]


\* C33: every slot of every island holds the position block and the normal
\* block of one and the same face of the request, as they are in the
\* request.
C33_FaceAttributesKept ==
  segmented =>
    \A k \in 1..Len(islands) :
      /\ Len(islands[k].normal) = Len(islands[k].position)
      /\ \A j \in 1..Len(islands[k].position) :
           \E i \in 1..Len(positions) :
             /\ islands[k].normal[j] = normals[i]
             /\ islands[k].position[j] = positions[i]

C33_Witness ==
  /\ segmented
  /\ Len(islands) = 2
  /\ islands[1].normal = <<1, 3>>
  /\ islands[2].normal = <<2>>
  /\ positions[2] # positions[1]

\* the faces taken from the queue so far, and those put into it so far
Dequeued == Flat(raw.islands) \o raw.current

Enqueued == Dequeued \o raw.queue

NoRepeat(sq) == \A j, k \in 1..Len(sq) : sq[j] = sq[k] => j = k

\* C34: on a request of whole triangles every face in the queue is marked,
\* no face is put into the queue twice, and the run ends, every face having
\* been taken from the queue exactly once.
C34_EachFaceOnce ==
  /\ [](/\ \A k \in 1..Len(raw.queue) : IsVisited(raw.faceVisited, raw.queue[k])
        /\ NoRepeat(Enqueued)
        /\ raw.pc = "done" =>
             /\ Len(Dequeued) = Len(raw.rq.faces)
             /\ Range(Dequeued) = 1..Len(raw.rq.faces))
  /\ <>(raw.pc = "done")

C34_Witness ==
  /\ raw.pc = "done"
  /\ raw.islands = <<<<1, 2>>>>
  /\ Len(RawNeighbors(raw.rq, 1)) > 2


\* ---- properties of the listeners of one worker ----

Unsettled == {k \in 1..Len(futures) : futures[k].state = "pending"}

\* C35: the 'message' listeners and the 'error' listeners on the worker are
\* as many as, and those of, the promises not yet settled; a promise that
\* settles has both listeners removed, and a settled promise does not
\* change again.
C35_ListenersMatchFutures ==
  [][/\ Range(port.listeners)' = Unsettled'
     /\ Range(port.errs)' = Unsettled'
     /\ Len(port.listeners)' = Cardinality(Unsettled')
     /\ Len(port.errs)' = Cardinality(Unsettled')
     /\ \A k \in 1..Len(futures) :
          futures[k].state # "pending" => futures'[k].state = futures[k].state]_vars


\* ---- properties of undo and redo taken together ----

\* k calls of undo, then of redo, from the stacks of st, with the traces
\* put one after the other
RECURSIVE UndoTimes(_, _)
UndoTimes(st, k) ==
  IF k = 0 THEN st
  ELSE LET r == undo(st.undoStack, st.redoStack) IN
       UndoTimes([r EXCEPT !.trace = st.trace \o @], k - 1)

RECURSIVE RedoTimes(_, _)
RedoTimes(st, k) ==
  IF k = 0 THEN st
  ELSE LET r == redo(st.undoStack, st.redoStack) IN
       RedoTimes([r EXCEPT !.trace = st.trace \o @], k - 1)

Backwards(sq) == [j \in 1..Len(sq) |-> sq[Len(sq) + 1 - j]]

\* C36: k undo() calls followed by k redo() calls, k up to the length of
\* undoStack, leave both stacks as they were, element for element; the redo
\* closures are called in the reverse order of the undo closures; and no
\* command is on both stacks.
C36_UndoRedoInverse ==
  /\ StackIds(undoStack) \cap StackIds(redoStack) = {}
  /\ \A k \in 0..Len(undoStack) :
       LET here == [undoStack |-> undoStack, redoStack |-> redoStack, trace |-> <<>>]
           back == UndoTimes(here, k)
           forth == RedoTimes([back EXCEPT !.trace = <<>>], k)
       IN /\ Len(back.undoStack) = Len(undoStack) - k
          /\ Len(Called(back.trace, "undo")) = k
          /\ forth.undoStack = undoStack
          /\ forth.redoStack = redoStack
          /\ Called(forth.trace, "redo") = Backwards(Called(back.trace, "undo"))

C36_Witness ==
  /\ lastOp = "redo"
  /\ Len(undoStack) = 3
  /\ Len(redoStack) = 1
  /\ Called(events, "redo") # <<>>


\* C37: an undo() or redo() whose closure throws leaves undoStack and
\* redoStack as they were, the command where it was.
C37_ThrowLeavesStacks ==
  [][Called(events', "throw") # <<>> =>
       /\ lastOp' \in {"undoThrew", "redoThrew"}
       /\ undoStack' = undoStack
       /\ redoStack' = redoStack
       /\ Called(events', "set") = <<>>]_vars

C37_Witness ==
  /\ lastOp = "undoThrew"
  /\ Called(events, "undo") # <<>>
  /\ Len(undoStack) = 1
  /\ Len(redoStack) = 1


\* ---- properties of one stroke ----

\* call t is the only call of handleFinDrawing that is suspended
Alone(t) == \A u \in TaskIds \ {t} : tasks[u].pc \notin {"csg", "isl"}

\* the step in which call t, all of whose requests succeeded, takes its
\* last segmentation response and runs to its end, the scene being as it
\* was when the call took its snapshot
Completes(t) ==
  /\ tasks[t].pc = "isl"
  /\ tasks'[t].pc = "done"
  /\ dispatch.ok
  /\ ~tasks[t].failed
  /\ Alone(t)
  /\ concave = tasks[t].cur

\* C31: a stroke that completes with every request successful and nothing
\* in between leaves in the concave group the meshes it found there without
\* those that collided, with the islands returned for them, each once; the
\* cutter is added to the convex group.
C31_StrokeSwapsCollided ==
  [][\A t \in TaskIds :
       Completes(t) =>
         LET got == (Range(tasks[t].next) \ Range(tasks[t].cur)) \cup (nextMesh..(nextMesh' - 1))
         IN /\ Range(concave') = (Range(concave) \ tasks[t].hits) \cup got
            /\ got \cap Range(concave) = {}
            /\ tasks[t].hits \cap Range(concave') = {}
            /\ tasks[t].hits # {}
            /\ NoRepeat(concave')
            /\ Range(convex') = Range(convex) \cup {t}
            /\ NoRepeat(convex')]_vars

C31_Witness ==
  /\ lastOp = "islListener"
  /\ tasks[2].pc = "done"
  /\ Len(concave) = 3
  /\ 2 \in Range(convex)
  /\ Len(undoStack) = 2

\* the step in which the pointer is released on a stroke of fewer than two
\* points or on one whose cutter meets no mesh (the call then runs to its
\* end without a request)
Misses ==
  /\ isDrawing
  /\ ~isDrawing'
  /\ \/ points < 2
     \/ nextTask' = nextTask + 1 /\ tasks'[nextTask].pc = "done"

\* C32: such a stroke posts no request and leaves the two groups, both
\* stacks and what was released as they were.
C32_MissChangesNothing ==
  [][Misses =>
       /\ UNCHANGED <<csgInbox, islInbox, csgListeners, islListeners>>
       /\ UNCHANGED <<concave, convex>>
       /\ UNCHANGED <<undoStack, redoStack, released, disposedMesh, pushed>>
       /\ Called(events', "postCsg") = <<>>]_vars

C32_Witness ==
  /\ lastOp \in {"pointerup", "pointerleave"}
  /\ tasks[2].pc = "done"
  /\ 2 \in disposedGeo
  /\ redoStack # <<>>
  /\ 2 \notin Range(convex)

====
